---------------------------- MODULE Spec2Model ----------------------------
(* BXEngine: lib/scriptmanager.py (ScriptManager) and                       *)
(* lib/overlaymanager.py (OverlayManager).                                   *)
(*                                                                           *)
(* Strings that the code takes apart (script paths) are sequences of         *)
(* tokens: a name, or one separator character.  Python values are tagged     *)
(* records.  Every method is an operator that maps the state it reads to an  *)
(* outcome record: the value returned or the exception raised, the cache     *)
(* afterwards, and the log entries written.                                  *)
EXTENDS Integers, Sequences, FiniteSets, TLC

VARIABLES
    modules,      \* ScriptManager.__modules: normalized filename -> module
    fs,           \* the filesystem under the working directory
    worldDir,     \* self.world.dir
    proc,         \* the engine process: running, or exited with a status
    execStarted,  \* per cache key: top-level executions started
    execDone,     \* per cache key: top-level executions that ran to the end
    last,         \* the last ScriptManager operation and its outcome
    threads,      \* per thread: where it is in _module, and what it got
    overlays,     \* OverlayManager.overlays: overlay ID -> overlay
    scaled,       \* surfaces that pygame.transform.scale has made so far
    ovLast        \* the last OverlayManager operation and its outcome

scriptVars == <<modules, fs, worldDir, proc, execStarted, execDone, last>>
overlayVars == <<overlays, scaled, ovLast>>
vars == <<modules, fs, worldDir, proc, execStarted, execDone, last, threads,
          overlays, scaled, ovLast>>

-----------------------------------------------------------------------------
(* Bounds and input sets *)

\* top-level executions of one script that a run may start
MaxExec == 2

SEP == "/"
BACKSLASH == "\\"
COMMON == "$COMMON$"

\* the logical paths callers pass in: a script of the world, a script of the
\* shared namespace (written with either separator)
RawPaths ==
    { <<"a.py">>,
      <<COMMON, SEP, "a.py">>,
      <<COMMON, BACKSLASH, "a.py">> }

\* the shared-namespace marker with nothing after it
MalformedPaths == { <<COMMON, SEP>> }

AllPaths == RawPaths \cup MalformedPaths

WorldDirs == { <<"w">>, <<"common">> }

\* what a script file does when its top-level code runs
GoodScripts == {"good"}
BadScripts == {"bad"}
ExitScripts == {"exit3"}
Scripts == GoodScripts \cup BadScripts \cup ExitScripts

\* the status a script's top-level code passes to sys.exit
ExitCodeOf(content) == IF content = "exit3" THEN 3 ELSE 0

\* the attribute names callers ask for, and the argument they pass
\* A good script defines  def echo(x=7): return x,  def boom(*a): raise ValueError,
\* def lookup(*a): raise AttributeError,  def quit(code=0): sys.exit(code)  and
\* data = 1;  nofunc is defined nowhere.
Funcs == {"echo", "boom", "lookup", "quit", "data", "nofunc", "__repr__"}
ArgLists == { <<>>, <<3>> }

\* outcomes of constructing the context handle, APIContext(filename, app)
ApiOutcomes == {"ok", "fault"}

-----------------------------------------------------------------------------
(* Python values *)

PyNone == [t |-> "None"]
PyFalse == [t |-> "bool", b |-> FALSE]
PyTrue == [t |-> "bool", b |-> TRUE]
PyBool(x) == IF x THEN PyTrue ELSE PyFalse
PyInt(n) == [t |-> "int", n |-> n]
PyStr(s) == [t |-> "str", s |-> s]
NoBXE == <<>>
\* file is the module's __file__, the location its code was read from
PyModule(key, file, gen, bxe) ==
    [t |-> "module", key |-> key, file |-> file, gen |-> gen, BXE |-> bxe]

IsModule(v) == v.t = "module"

-----------------------------------------------------------------------------
(* Outcomes: exc = "none" is a normal return of ret *)

\* ran: "no" (no top-level code ran), "aborted" (it ran and raised), "done"
Returned(ret, mods, logs, ran) ==
    [exc |-> "none", code |-> 0, ret |-> ret, mods |-> mods, logs |-> logs, ran |-> ran, invoked |-> FALSE]

Raised(exc, code, mods, logs, ran) ==
    [exc |-> exc, code |-> code, ret |-> PyNone, mods |-> mods, logs |-> logs, ran |-> ran, invoked |-> FALSE]

LogEntry(lvl, msg, path, func) == [lvl |-> lvl, msg |-> msg, path |-> path, func |-> func]
NoFunc == ""


-----------------------------------------------------------------------------
(* Paths *)

\* lib.util.normalize_path: separators canonicalized
normalize_path(path) ==
    [i \in 1..Len(path) |-> IF path[i] = BACKSLASH THEN SEP ELSE path[i]]

\* str.startswith("$COMMON$/")
StartsWithCommon(filename) ==
    Len(filename) >= 2 /\ filename[1] = COMMON /\ filename[2] = SEP

\* filename.split('/', 1)[1]: what follows the first separator
AfterFirstSep(filename) ==
    LET i == CHOOSE k \in 1..Len(filename) :
                 filename[k] = SEP /\ \A j \in 1..(k - 1) : filename[j] # SEP
    IN SubSeq(filename, i + 1, Len(filename))

\* a loader that resolves every path against the world's directory
FullPathWorldOnly(wdir, filename) == wdir \o <<SEP>> \o filename

\* __load, lines 149-152
FullPath(wdir, filename) ==
    IF StartsWithCommon(filename)
    THEN <<"common", SEP>> \o AfterFirstSep(filename)
    ELSE wdir \o <<SEP>> \o filename

Keys == { normalize_path(p) : p \in AllPaths }
Locations == { FullPath(w, k) : w \in WorldDirs, k \in Keys }

\* What may be found at a location: the shared directory itself, a script of
\* the shared namespace (there or not, never broken), a script of the world.
IsDirLoc(loc) == loc[Len(loc)] = SEP
ContentsAt(loc) ==
    IF IsDirLoc(loc) THEN {"absent", "dir"}
    ELSE IF loc[1] = "common" THEN {"absent"} \cup GoodScripts
    ELSE {"absent"} \cup Scripts

\* os.path.exists
Exists(files, fullpath) == files[fullpath] # "absent"

-----------------------------------------------------------------------------
(* ScriptManager.__load *)

MsgNoSuchScript == "__load(): No such script"
MsgLoaded == "__load(): Loaded script"
MsgLoadExit == "__load(): Script called sys.exit()"
MsgLoadError == "__load(): Error from script"

\* sys.exit(11) in __load
LoadExitStatus == 11

\* a loader that starts a new dictionary for the module it has built
LoadTryReset(mods, files, fullpath, filename, api, gen) ==
    LET content == files[fullpath] IN
    IF content = "dir" THEN Raised("AttributeError", 0, mods, <<>>, "no")
    ELSE IF content \in BadScripts THEN Raised("ValueError", 0, mods, <<>>, "aborted")
    ELSE IF content \in ExitScripts
    THEN Raised("SystemExit", ExitCodeOf(content), mods, <<>>, "aborted")
    ELSE LET mods1 == [k \in {filename} |-> PyModule(filename, fullpath, gen, NoBXE)]
             mods2 == [mods1 EXCEPT ![filename].BXE = filename]
         IN IF api = "fault"
            THEN Raised("RuntimeError", 0, mods1, <<>>, "done")
            ELSE Returned(mods2[filename], mods2,
                          <<LogEntry("info", MsgLoaded, filename, NoFunc)>>, "done")

\* lines 161-168, the body of the try statement.  gen names the module object
\* that module_from_spec creates.
LoadTry(mods, files, fullpath, filename, api, gen) ==
    LET content == files[fullpath] IN
    IF content = "dir"
    THEN \* spec_from_file_location finds no loader and returns None
         Raised("AttributeError", 0, mods, <<>>, "no")
    ELSE IF content \in BadScripts
    THEN Raised("ValueError", 0, mods, <<>>, "aborted")
    ELSE IF content \in ExitScripts
    THEN Raised("SystemExit", ExitCodeOf(content), mods, <<>>, "aborted")
    ELSE LET mod == PyModule(filename, fullpath, gen, NoBXE)
             mods1 == [k \in DOMAIN mods \cup {filename} |->
                          IF k = filename THEN mod ELSE mods[k]]
             mods2 == [mods1 EXCEPT ![filename].BXE = filename]
         IN IF api = "fault"
            THEN Raised("RuntimeError", 0, mods1, <<>>, "done")
            ELSE Returned(mods2[filename], mods2,
                          <<LogEntry("info", MsgLoaded, filename, NoFunc)>>, "done")

\* lines 170-177, the except clauses
LoadExcept(t, filename) ==
    IF t.exc = "none" THEN t
    ELSE IF t.exc = "SystemExit"
    THEN [t EXCEPT !.logs = Append(@, LogEntry("critical", MsgLoadExit, filename, NoFunc)),
                   !.code = LoadExitStatus]
    ELSE [t EXCEPT !.exc = "none", !.ret = PyNone,
                   !.logs = Append(@, LogEntry("error", MsgLoadError, filename, NoFunc))]

\* a loader that remembers a script it did not find
LoadMissingCached(mods, fullpath, filename) ==
    Returned(PyFalse,
             [k \in DOMAIN mods \cup {filename} |-> IF k = filename THEN PyFalse ELSE mods[k]],
             <<LogEntry("error", MsgNoSuchScript, fullpath, NoFunc)>>, "no")

\* lines 153-155
LoadMissing(mods, fullpath, filename) ==
    Returned(PyFalse, mods, <<LogEntry("error", MsgNoSuchScript, fullpath, NoFunc)>>, "no")

Load(mods, files, wdir, path, api, gen) ==
    LET filename == normalize_path(path)
        fullpath == FullPath(wdir, filename)
    IN IF ~Exists(files, fullpath)
       THEN LoadMissing(mods, fullpath, filename)
       ELSE LoadExcept(LoadTry(mods, files, fullpath, filename, api, gen), filename)

-----------------------------------------------------------------------------
(* ScriptManager._module, __getitem__, __contains__ *)

\* a _module that loads on every request
ModuleNoCache(mods, files, wdir, path, api, gen) ==
    Load(mods, files, wdir, normalize_path(path), api, gen)

Module(mods, files, wdir, path, api, gen) ==
    LET filename == normalize_path(path) IN
    IF filename \notin DOMAIN mods
    THEN Load(mods, files, wdir, filename, api, gen)
    ELSE Returned(mods[filename], mods, <<>>, "no")

MsgNoSuchModule == "__getitem__(): No such module"
MsgErrorFromModule == "__getitem__(): Error from module"

GetItem(mods, files, wdir, item, api, gen) ==
    LET r == Module(mods, files, wdir, item, api, gen) IN
    IF r.exc # "none" THEN r
    ELSE IF r.ret \notin {PyNone, PyFalse} THEN r
    ELSE IF r.ret = PyFalse
    THEN [r EXCEPT !.ret = PyNone,
                   !.logs = Append(@, LogEntry("error", MsgNoSuchModule, item, NoFunc))]
    ELSE [r EXCEPT !.ret = PyNone,
                   !.logs = Append(@, LogEntry("error", MsgErrorFromModule, item, NoFunc))]

Contains(mods, files, wdir, item, api, gen) ==
    LET r == Module(mods, files, wdir, item, api, gen) IN
    IF r.exc # "none" THEN r
    ELSE [r EXCEPT !.ret = PyBool(r.ret # PyNone)]

-----------------------------------------------------------------------------
(* ScriptManager.call *)

\* getattr(obj, func): obj is a module built from a good script, or None.
\* kind "missing" stands for the AttributeError that getattr raises.
GetAttr(obj, func) ==
    IF IsModule(obj)
    THEN IF func = "nofunc" THEN "missing" ELSE func
    ELSE IF func = "__repr__" THEN "__repr__" ELSE "missing"

\* attr(*args) for an attribute that getattr found
Invoke(obj, kind, args, mods, logs, ran) ==
    LET out ==
        IF kind = "echo" THEN Returned(IF Len(args) = 0 THEN PyInt(7) ELSE PyInt(args[1]), mods, logs, ran)
        ELSE IF kind = "boom" THEN Raised("ValueError", 0, mods, logs, ran)
        ELSE IF kind = "lookup" THEN Raised("AttributeError", 0, mods, logs, ran)
        ELSE IF kind = "quit" THEN Raised("SystemExit", IF Len(args) = 0 THEN 0 ELSE args[1], mods, logs, ran)
        ELSE IF kind = "data" THEN Raised("TypeError", 0, mods, logs, ran)
        ELSE \* object.__repr__ takes no argument
             IF Len(args) = 0
             THEN Returned(PyStr(IF IsModule(obj) THEN "<module>" ELSE "None"), mods, logs, ran)
             ELSE Raised("TypeError", 0, mods, logs, ran)
    IN [out EXCEPT !.invoked = (kind # "data")]

MsgNotLoadedForCall == "call(): Module not loaded for call"
MsgCallExit == "call(): Script called sys.exit()"
MsgCallError == "call(): Error from function"

\* sys.exit(11) in call
CallExitStatus == 11

\* line 106, the body of the try statement
CallTry(mods, files, wdir, filename, func, args, api, gen) ==
    LET g == GetItem(mods, files, wdir, filename, api, gen) IN
    IF g.exc # "none" THEN g
    ELSE LET kind == GetAttr(g.ret, func) IN
         IF kind = "missing"
         THEN Raised("AttributeError", 0, g.mods, g.logs, g.ran)
         ELSE Invoke(g.ret, kind, args, g.mods, g.logs, g.ran)

Without(mods, filename) == [k \in DOMAIN mods \ {filename} |-> mods[k]]

\* a call that drops the module whose function raised, to load it afresh
CallExceptEvict(t, filename, func) ==
    IF t.exc = "none" THEN t
    ELSE IF t.exc = "AttributeError"
    THEN [t EXCEPT !.exc = "none", !.ret = PyNone,
                   !.logs = Append(@, LogEntry("error", MsgNotLoadedForCall, filename, func))]
    ELSE IF t.exc = "SystemExit"
    THEN [t EXCEPT !.logs = Append(@, LogEntry("critical", MsgCallExit, filename, NoFunc)),
                   !.code = CallExitStatus]
    ELSE [t EXCEPT !.exc = "none", !.ret = PyNone, !.mods = Without(@, filename),
                   !.logs = Append(@, LogEntry("error", MsgCallError, filename, func))]

\* a call without the last, catch-all except clause
CallExceptNoCatchAll(t, filename, func) ==
    IF t.exc = "none" THEN t
    ELSE IF t.exc = "AttributeError"
    THEN [t EXCEPT !.exc = "none", !.ret = PyNone,
                   !.logs = Append(@, LogEntry("error", MsgNotLoadedForCall, filename, func))]
    ELSE IF t.exc = "SystemExit"
    THEN [t EXCEPT !.logs = Append(@, LogEntry("critical", MsgCallExit, filename, NoFunc)),
                   !.code = CallExitStatus]
    ELSE t

\* a call that lets the script's SystemExit through with its own status
CallExceptKeepStatus(t, filename, func) ==
    IF t.exc = "none" THEN t
    ELSE IF t.exc = "AttributeError"
    THEN [t EXCEPT !.exc = "none", !.ret = PyNone,
                   !.logs = Append(@, LogEntry("error", MsgNotLoadedForCall, filename, func))]
    ELSE IF t.exc = "SystemExit"
    THEN [t EXCEPT !.logs = Append(@, LogEntry("critical", MsgCallExit, filename, NoFunc))]
    ELSE [t EXCEPT !.exc = "none", !.ret = PyNone,
                   !.logs = Append(@, LogEntry("error", MsgCallError, filename, func))]

\* a call without the except AttributeError clause
CallExceptNoAttr(t, filename, func) ==
    IF t.exc = "none" THEN t
    ELSE IF t.exc = "SystemExit"
    THEN [t EXCEPT !.logs = Append(@, LogEntry("critical", MsgCallExit, filename, NoFunc)),
                   !.code = CallExitStatus]
    ELSE [t EXCEPT !.exc = "none", !.ret = PyNone,
                   !.logs = Append(@, LogEntry("error", MsgCallError, filename, func))]

\* a call whose first except clause also takes the TypeError of a call of
\* something that is not callable
CallExceptTypeAsAttr(t, filename, func) ==
    IF t.exc = "none" THEN t
    ELSE IF t.exc \in {"AttributeError", "TypeError"}
    THEN [t EXCEPT !.exc = "none", !.ret = PyNone,
                   !.logs = Append(@, LogEntry("error", MsgNotLoadedForCall, filename, func))]
    ELSE IF t.exc = "SystemExit"
    THEN [t EXCEPT !.logs = Append(@, LogEntry("critical", MsgCallExit, filename, NoFunc)),
                   !.code = CallExitStatus]
    ELSE [t EXCEPT !.exc = "none", !.ret = PyNone,
                   !.logs = Append(@, LogEntry("error", MsgCallError, filename, func))]

\* lines 107-117, the except clauses
CallExcept(t, filename, func) ==
    IF t.exc = "none" THEN t
    ELSE IF t.exc = "AttributeError"
    THEN [t EXCEPT !.exc = "none", !.ret = PyNone,
                   !.logs = Append(@, LogEntry("error", MsgNotLoadedForCall, filename, func))]
    ELSE IF t.exc = "SystemExit"
    THEN [t EXCEPT !.logs = Append(@, LogEntry("critical", MsgCallExit, filename, NoFunc)),
                   !.code = CallExitStatus]
    ELSE [t EXCEPT !.exc = "none", !.ret = PyNone,
                   !.logs = Append(@, LogEntry("error", MsgCallError, filename, func))]

Call(mods, files, wdir, path, func, args, api, gen) ==
    LET filename == normalize_path(path) IN
    CallExcept(CallTry(mods, files, wdir, filename, func, args, api, gen), filename, func)

-----------------------------------------------------------------------------
(* The engine around the ScriptManager *)

\* hit: the key was in the cache when the operation began.
\* changed: the operation left the cache another dictionary than it found.
\* kind: what the operation came to ("notfound": __load found no file,
\* "fault": a function of the unit was called and raised a fault that call
\* contained).
\* after: the kind of the ScriptManager operation before this one, when that
\* one was on the same cache key.
NoLast ==
    [op |-> "none", key |-> <<>>, func |-> NoFunc, args |-> <<>>, hit |-> FALSE,
     changed |-> FALSE, kind |-> "other", after |-> "other",
     out |-> Returned(PyNone, <<>>, <<>>, "no")]

HasLog(logs, msg) == \E i \in 1..Len(logs) : logs[i].msg = msg

\* __getitem__ had a module to hand to call
GotUnit(out) ==
    ~HasLog(out.logs, MsgNoSuchModule) /\ ~HasLog(out.logs, MsgErrorFromModule)

KindOf(op, out) ==
    IF HasLog(out.logs, MsgNoSuchScript) THEN "notfound"
    ELSE IF /\ op = "call" /\ GotUnit(out) /\ out.invoked /\ out.exc = "none"
            /\ \/ HasLog(out.logs, MsgCallError)
               \/ HasLog(out.logs, MsgNotLoadedForCall)
    THEN "fault"
    ELSE "other"

\* An operation on the ScriptManager ran to its end with outcome out: a
\* SystemExit that leaves the operation ends the process with its status.
Commit(op, path, func, args, out) ==
    LET key == normalize_path(path) IN
    /\ out.ran # "no" => execStarted[key] < MaxExec
    /\ modules' = out.mods
    /\ proc' = IF out.exc = "SystemExit"
               THEN [st |-> "exited", status |-> out.code]
               ELSE proc
    /\ execStarted' = IF out.ran # "no" THEN [execStarted EXCEPT ![key] = @ + 1]
                      ELSE execStarted
    /\ execDone' = IF out.ran = "done" THEN [execDone EXCEPT ![key] = @ + 1]
                   ELSE execDone
    /\ last' = [op |-> op, key |-> key, func |-> func, args |-> args,
                hit |-> key \in DOMAIN modules,
                changed |-> out.mods # modules,
                kind |-> KindOf(op, out),
                after |-> IF last.key = key THEN last.kind ELSE "other",
                out |-> [out EXCEPT !.mods = <<>>]]
    /\ UNCHANGED <<fs, worldDir, threads, overlayVars>>

Gen(path) == execStarted[normalize_path(path)] + 1

\* The context handle is constructed only when a good script is loaded.
ApiChoices(path) ==
    LET key == normalize_path(path) IN
    IF key \notin DOMAIN modules /\ fs[FullPath(worldDir, key)] \in GoodScripts
    THEN ApiOutcomes
    ELSE {"ok"}

\* scriptManager._module(path)
Resolve(path) ==
    /\ proc.st = "running"
    /\ \E api \in ApiChoices(path) :
          Commit("resolve", path, NoFunc, <<>>,
                 Module(modules, fs, worldDir, path, api, Gen(path)))

\* scriptManager[path]
Subscript(path) ==
    /\ proc.st = "running"
    /\ \E api \in ApiChoices(path) :
          Commit("getitem", path, NoFunc, <<>>,
                 GetItem(modules, fs, worldDir, path, api, Gen(path)))

\* path in scriptManager
Probe(path) ==
    /\ proc.st = "running"
    /\ \E api \in ApiChoices(path) :
          Commit("contains", path, NoFunc, <<>>,
                 Contains(modules, fs, worldDir, path, api, Gen(path)))

\* scriptManager.call(path, func, *args)
CallOp(path, func, args) ==
    /\ proc.st = "running"
    /\ \E api \in ApiChoices(path) :
          Commit("call", path, func, args,
                 Call(modules, fs, worldDir, path, func, args, api, Gen(path)))

\* Somebody outside the engine creates, edits or removes a script file.
FsWrite(loc, content) ==
    /\ proc.st = "running"
    /\ content \in ContentsAt(loc)
    /\ content # fs[loc]
    /\ fs' = [fs EXCEPT ![loc] = content]
    /\ last' = [NoLast EXCEPT !.op = "fs", !.key = last.key, !.kind = last.kind]
    /\ UNCHANGED <<modules, worldDir, proc, execStarted, execDone, threads, overlayVars>>

\* Before any thread has asked for a script and any overlay was inserted.
Threads == {"t1", "t2"}
IdleThread == [pc |-> "idle", key |-> <<>>, ret |-> PyNone]
NoOvLast ==
    [op |-> "none", arg |-> PyNone, ret |-> PyNone, rendered |-> FALSE,
     log |-> "none", before |-> <<>>]

InitRest ==
    /\ threads = [t \in Threads |-> IdleThread]
    /\ overlays = <<>>
    /\ scaled = 0
    /\ ovLast = NoOvLast

\* The engine runs the world in directory w beside the shared directory.
SpecLocations == { FullPath(<<"w">>, normalize_path(p)) : p \in RawPaths }

Init ==
    /\ modules = <<>>
    /\ worldDir = <<"w">>
    /\ fs \in [Locations -> {"absent", "dir"} \cup Scripts]
    /\ \A loc \in SpecLocations : fs[loc] \in ContentsAt(loc)
    /\ \A loc \in Locations \ SpecLocations :
          fs[loc] = IF IsDirLoc(loc) THEN "dir" ELSE "absent"
    /\ proc = [st |-> "running", status |-> 0]
    /\ execStarted = [k \in Keys |-> 0]
    /\ execDone = [k \in Keys |-> 0]
    /\ last = NoLast
    /\ InitRest

Next ==
    \/ \E p \in RawPaths : Resolve(p)
    \/ \E p \in RawPaths : Subscript(p)
    \/ \E p \in RawPaths : Probe(p)
    \/ \E p \in RawPaths, f \in Funcs, a \in ArgLists : CallOp(p, f, a)
    \/ \E loc \in SpecLocations, c \in Scripts \cup {"absent"} : FsWrite(loc, c)

Spec == Init /\ [][Next]_vars

TypeOK ==
    /\ DOMAIN modules \subseteq Keys
    /\ proc.st \in {"running", "exited"}
    /\ \A k \in Keys : execStarted[k] \in 0..MaxExec /\ execDone[k] \in 0..MaxExec

-----------------------------------------------------------------------------
(* The same engine, run on the world in w or on a world kept in the directory
   named common; scripts are looked up, and called for echo *)

LocationsOf(wdir) == { FullPath(wdir, normalize_path(p)) : p \in RawPaths }

InitWorlds ==
    /\ modules = <<>>
    /\ worldDir \in WorldDirs
    /\ fs \in [Locations -> {"absent", "dir"} \cup Scripts]
    /\ \A loc \in LocationsOf(worldDir) : fs[loc] \in ContentsAt(loc)
    /\ \A loc \in Locations \ LocationsOf(worldDir) :
          fs[loc] = IF IsDirLoc(loc) THEN "dir" ELSE "absent"
    /\ proc = [st |-> "running", status |-> 0]
    /\ execStarted = [k \in Keys |-> 0]
    /\ execDone = [k \in Keys |-> 0]
    /\ last = NoLast
    /\ InitRest

NextWorlds ==
    \/ \E p \in RawPaths : Resolve(p)
    \/ \E p \in RawPaths : Subscript(p)
    \/ \E p \in RawPaths : Probe(p)
    \/ \E p \in RawPaths, a \in ArgLists : CallOp(p, "echo", a)
    \/ \E loc \in LocationsOf(worldDir), c \in Scripts \cup {"absent"} : FsWrite(loc, c)

SpecWorlds == InitWorlds /\ [][NextWorlds]_vars

-----------------------------------------------------------------------------
(* Two threads of the engine asking the ScriptManager for scripts.  The class
   holds no lock: a thread may be suspended between the membership test of
   _module and the load it decides on. *)

\* _module, lines 136-137 and 140: the test, and the cached module on a hit
ThreadTest(t, path) ==
    LET key == normalize_path(path) IN
    /\ proc.st = "running"
    /\ threads[t].pc = "idle"
    /\ threads' = [threads EXCEPT ![t] =
                      IF key \notin DOMAIN modules
                      THEN [pc |-> "load", key |-> key, ret |-> PyNone]
                      ELSE [pc |-> "done", key |-> key, ret |-> modules[key]]]
    /\ UNCHANGED <<scriptVars, overlayVars>>

\* _module, line 138: __load, for the thread that found the key missing
ThreadLoad(t) ==
    LET key == threads[t].key IN
    /\ proc.st = "running"
    /\ threads[t].pc = "load"
    /\ \E api \in ApiOutcomes :
          LET out == Load(modules, fs, worldDir, key, api, execStarted[key] + 1) IN
          /\ out.ran # "no" => execStarted[key] < MaxExec
          /\ modules' = out.mods
          /\ proc' = IF out.exc = "SystemExit"
                     THEN [st |-> "exited", status |-> out.code]
                     ELSE proc
          /\ execStarted' = IF out.ran # "no" THEN [execStarted EXCEPT ![key] = @ + 1]
                            ELSE execStarted
          /\ execDone' = IF out.ran = "done" THEN [execDone EXCEPT ![key] = @ + 1]
                         ELSE execDone
          /\ threads' = [threads EXCEPT ![t] = [pc |-> "done", key |-> key, ret |-> out.ret]]
    /\ UNCHANGED <<fs, worldDir, last, overlayVars>>

\* the caller has taken the result
ThreadReturn(t) ==
    /\ proc.st = "running"
    /\ threads[t].pc = "done"
    /\ threads' = [threads EXCEPT ![t] = IdleThread]
    /\ UNCHANGED <<scriptVars, overlayVars>>

\* scripts that load or fail to load, none that ends the process
InitThreads ==
    /\ Init
    /\ \A loc \in SpecLocations : fs[loc] \notin ExitScripts

NextThreads ==
    \/ \E t \in Threads, p \in RawPaths : ThreadTest(t, p)
    \/ \E t \in Threads : ThreadLoad(t)
    \/ \E t \in Threads : ThreadReturn(t)

SpecThreads == InitThreads /\ [][NextThreads]_vars

-----------------------------------------------------------------------------
(* The engine asked for the marker of the shared namespace with no script
   name after it, beside a script of the world; the shared directory is there
   or is not *)

MalformedProbes == MalformedPaths \cup {<<"a.py">>}
MalformedLocations == { FullPath(<<"w">>, normalize_path(p)) : p \in MalformedProbes }
MalformedFuncs == {"echo", "boom", "nofunc", "__repr__"}

InitMalformed ==
    /\ modules = <<>>
    /\ worldDir = <<"w">>
    /\ fs \in [Locations -> {"absent", "dir"} \cup Scripts]
    /\ \A loc \in MalformedLocations : fs[loc] \in ContentsAt(loc)
    /\ \A loc \in Locations \ MalformedLocations : fs[loc] = "absent"
    /\ proc = [st |-> "running", status |-> 0]
    /\ execStarted = [k \in Keys |-> 0]
    /\ execDone = [k \in Keys |-> 0]
    /\ last = NoLast
    /\ InitRest

NextMalformed ==
    \/ \E p \in MalformedProbes : Resolve(p)
    \/ \E p \in MalformedProbes : Subscript(p)
    \/ \E p \in MalformedProbes : Probe(p)
    \/ \E p \in MalformedProbes, f \in MalformedFuncs, a \in ArgLists : CallOp(p, f, a)
    \/ \E loc \in MalformedLocations, c \in Scripts \cup {"absent", "dir"} : FsWrite(loc, c)

SpecMalformed == InitMalformed /\ [][NextMalformed]_vars

-----------------------------------------------------------------------------
(* OverlayManager *)

\* surfaces that pygame.transform.scale may still make
MaxScaled == 1

\* A pygame.Surface is known by its identity, the value of id().  The caller
\* holds one surface; the resource manager hands out one surface per image
\* file and scale; a surface made by pygame.transform.scale is a new object.
PySurface(i) == [t |-> "surface", id |-> i]
CallerSurfaces == {PySurface(1)}
ImageFiles == {"img.png"}
NoScale == <<>>
Scales == {NoScale, <<2, 2>>}
Positions == {<<0, 0>>, <<5, 5>>}
ScaledSurface(n) == PySurface(3 + n)
OverlayIds == 1..(3 + MaxScaled)

\* what insert_overlay is given as imagefile and scale: a surface, at its
\* size or scaled; an image file, one that is there and one that is not, at
\* its size; something that is neither
InsertArgs ==
    (CallerSurfaces \X Scales)
        \cup ({PyStr("img.png"), PyStr("nope.png"), PyInt(5)} \X {NoScale})

\* ResourceManager.load_image(path, scale): the image, or None when the file
\* cannot be loaded
load_image(wdir, imagefile, scale) ==
    IF imagefile \notin ImageFiles THEN PyNone
    ELSE IF scale = NoScale THEN PySurface(2)
    ELSE PySurface(3)

OvOutcome(ret, ovs, sc, rendered, log) ==
    [ret |-> ret, ovs |-> ovs, scaled |-> sc, rendered |-> rendered, log |-> log]

Overlay(filename, image, position, persistent) ==
    [filename |-> filename, image |-> image, position |-> position,
     persistent |-> persistent]

\* self.overlays[key] = entry
Put(ovs, key, entry) ==
    [k \in DOMAIN ovs \cup {key} |-> IF k = key THEN entry ELSE ovs[k]]

\* lines 82-109
insert_overlay(ovs, sc, wdir, imagefile, position, scale, persistent) ==
    IF imagefile.t \notin {"str", "surface"}
    THEN OvOutcome(PyFalse, ovs, sc, FALSE, "error")
    ELSE LET overlay_image ==
                 IF imagefile.t = "str" THEN load_image(wdir, imagefile.s, scale)
                 ELSE IF scale # NoScale THEN ScaledSurface(sc + 1)
                 ELSE imagefile
             filename == IF imagefile.t = "str" THEN imagefile ELSE PyNone
             sc1 == IF imagefile.t = "surface" /\ scale # NoScale THEN sc + 1 ELSE sc
         IN IF overlay_image = PyNone
            THEN OvOutcome(PyNone, ovs, sc1, FALSE, "error")
            ELSE OvOutcome(PyInt(overlay_image.id),
                           Put(ovs, overlay_image.id,
                               Overlay(filename, overlay_image.id, position, persistent)),
                           sc1, TRUE, "info")

\* lines 118-127
remove_overlay(ovs, sc, overlay_id) ==
    IF overlay_id \notin DOMAIN ovs
    THEN OvOutcome(PyFalse, ovs, sc, FALSE, "error")
    ELSE OvOutcome(PyTrue, [k \in DOMAIN ovs \ {overlay_id} |-> ovs[k]], sc, TRUE, "info")

\* lines 137-147
reposition_overlay(ovs, sc, overlay_id, position) ==
    IF overlay_id \notin DOMAIN ovs
    THEN OvOutcome(PyFalse, ovs, sc, FALSE, "error")
    ELSE OvOutcome(PyTrue, [ovs EXCEPT ![overlay_id].position = position], sc, TRUE, "info")

\* lines 157-167
rescale_overlay(ovs, sc, overlay_id, scale) ==
    IF overlay_id \notin DOMAIN ovs
    THEN OvOutcome(PyFalse, ovs, sc, FALSE, "error")
    ELSE OvOutcome(PyTrue, [ovs EXCEPT ![overlay_id].image = ScaledSurface(sc + 1).id],
                   sc + 1, TRUE, "info")

\* a cleanup that empties the collection
cleanup_all(ovs, sc) ==
    OvOutcome(PyNone, <<>>, sc, FALSE, "none")

\* lines 172-177
cleanup(ovs, sc) ==
    LET to_remove == { k \in DOMAIN ovs : ~ovs[k].persistent } IN
    OvOutcome(PyNone, [k \in DOMAIN ovs \ to_remove |-> ovs[k]], sc, FALSE, "none")

\* An operation of the OverlayManager ran to its end with outcome out.
OvCommit(op, arg, out) ==
    /\ out.scaled <= MaxScaled
    /\ overlays' = out.ovs
    /\ scaled' = out.scaled
    /\ ovLast' = [op |-> op, arg |-> arg, ret |-> out.ret, rendered |-> out.rendered,
                  log |-> out.log, before |-> overlays]
    /\ UNCHANGED <<scriptVars, threads>>

InsertOverlay(imagefile, position, scale, persistent) ==
    /\ proc.st = "running"
    /\ OvCommit("insert", imagefile,
                insert_overlay(overlays, scaled, worldDir, imagefile, position, scale,
                               persistent))

RemoveOverlay(overlay_id) ==
    /\ proc.st = "running"
    /\ OvCommit("remove", PyInt(overlay_id), remove_overlay(overlays, scaled, overlay_id))

RepositionOverlay(overlay_id, position) ==
    /\ proc.st = "running"
    /\ OvCommit("reposition", PyInt(overlay_id),
                reposition_overlay(overlays, scaled, overlay_id, position))

RescaleOverlay(overlay_id, scale) ==
    /\ proc.st = "running"
    /\ OvCommit("rescale", PyInt(overlay_id),
                rescale_overlay(overlays, scaled, overlay_id, scale))

\* the roomview changes
Cleanup ==
    /\ proc.st = "running"
    /\ OvCommit("cleanup", PyNone, cleanup(overlays, scaled))

InitOverlay ==
    /\ Init
    /\ fs = [loc \in Locations |-> IF IsDirLoc(loc) THEN "dir" ELSE "absent"]

NextOverlay ==
    \/ \E a \in InsertArgs, p \in Positions, b \in BOOLEAN :
          InsertOverlay(a[1], p, a[2], b)
    \/ \E k \in OverlayIds : RemoveOverlay(k)
    \/ \E k \in OverlayIds, p \in Positions : RepositionOverlay(k, p)
    \/ \E k \in OverlayIds, s \in Scales \ {NoScale} : RescaleOverlay(k, s)
    \/ Cleanup

SpecOverlay == InitOverlay /\ [][NextOverlay]_vars

-----------------------------------------------------------------------------
(* Properties of the script loader and dispatcher *)

SMOps == {"resolve", "getitem", "contains", "call"}
LookupOps == {"resolve", "getitem", "contains"}

NoLog == LogEntry("none", "", <<>>, NoFunc)
LastLog == IF last.out.logs = <<>> THEN NoLog ELSE last.out.logs[Len(last.out.logs)]
LastLoc == FullPath(worldDir, last.key)

\* the value the called function returns when it returns
ValueOf(obj, func, args) ==
    IF func = "echo" THEN (IF Len(args) = 0 THEN PyInt(7) ELSE PyInt(args[1]))
    ELSE PyStr(IF IsModule(obj) THEN "<module>" ELSE "None")

ReturnsNormally(func, args) ==
    func = "echo" \/ (func = "__repr__" /\ args = <<>>)

\* C1: once a path is a cache key, its top-level code has run to the end
\* exactly once, no execution was started after the one that built the cached
\* unit, and every resolve of a cached path (_module, __getitem__, the
\* membership probe, call) runs no top-level code and hands out the cached
\* unit itself.
C1_CachedUnitReused ==
    /\ \A k \in DOMAIN modules :
          /\ execDone[k] = 1
          /\ modules[k].gen = execStarted[k]
    /\ (last.op \in SMOps /\ last.hit) =>
          /\ last.out.ran = "no"
          /\ ~last.changed
          /\ last.op \in {"resolve", "getitem"} => last.out.ret = modules[last.key]
          /\ last.op = "contains" => last.out.ret = PyTrue

C1_Witness ==
    /\ last.op = "resolve" /\ last.hit
    /\ IsModule(last.out.ret)
    /\ execStarted[last.key] = 1

\* C2: a resolve of a path that is no cache key and whose location does not
\* exist returns False and leaves the cache as it was; the path is no cache
\* key afterwards.  The next resolve of the path, once a script is at the
\* location, is not answered False: it runs the script, and unless that load
\* faults it returns the module, now cached.
C2_NotFoundNotCached ==
    /\ (last.op = "resolve" /\ ~last.hit /\ ~Exists(fs, LastLoc)) =>
          /\ last.out.ret = PyFalse
          /\ last.out.exc = "none"
          /\ ~last.changed
          /\ last.key \notin DOMAIN modules
    /\ (last.op = "resolve" /\ last.after = "notfound" /\ Exists(fs, LastLoc)) =>
          /\ last.out.ret # PyFalse
          /\ fs[LastLoc] \in GoodScripts =>
                /\ last.out.ran = "done"
                /\ ~HasLog(last.out.logs, MsgLoadError) =>
                      /\ IsModule(last.out.ret)
                      /\ last.key \in DOMAIN modules
                      /\ modules[last.key] = last.out.ret

C2_Witness ==
    /\ last.op = "resolve" /\ last.after = "notfound"
    /\ IsModule(last.out.ret)
    /\ last.out.ran = "done"

\* C3: when a load ends in LoadError (__load returns None), the path is no
\* cache key afterwards.
C3_LoadErrorNotCached ==
    (last.op \in SMOps /\ HasLog(last.out.logs, MsgLoadError)) =>
        last.key \notin DOMAIN modules

\* C4: no step removes a cache key or maps it to another unit.
C4_CacheStable ==
    [][\A k \in DOMAIN modules : k \in DOMAIN modules' /\ modules'[k] = modules[k]]_vars

C4_Witness ==
    /\ Cardinality(DOMAIN modules) = 2
    /\ last.op = "call" /\ last.kind = "fault"

\* C5: a call whose function raises a fault other than SystemExit returns
\* None and leaves the unit cached as it was; the call after it of a function
\* of the same unit that returns runs no load and returns that function's value.
C5_FaultLeavesUnitUsable ==
    /\ (last.op = "call" /\ last.kind = "fault") =>
          /\ last.out.ret = PyNone
          /\ last.out.exc = "none"
          /\ last.key \in DOMAIN modules
          /\ last.hit => ~last.changed
    /\ (last.op = "call" /\ last.after = "fault" /\ ReturnsNormally(last.func, last.args)) =>
          /\ last.hit
          /\ last.out.ran = "no"
          /\ last.out.exc = "none"
          /\ last.out.ret = ValueOf(modules[last.key], last.func, last.args)

C5_Witness ==
    /\ last.op = "call" /\ last.after = "fault"
    /\ last.func = "echo" /\ last.args = <<3>>
    /\ last.out.ret = PyInt(3)

\* C6: call returns, or ends the process on SystemExit; no other exception
\* leaves it.
C6_CallContainsFaults ==
    last.op = "call" =>
        \/ last.out.exc = "none" /\ proc.st = "running"
        \/ last.out.exc = "SystemExit" /\ proc.st = "exited"

C6_Witness ==
    /\ last.op = "call" /\ last.out.invoked
    /\ LastLog = LogEntry("error", MsgCallError, last.key, last.func)
    /\ last.out.ret = PyNone /\ last.out.exc = "none"

\* C7: a script whose top-level code calls sys.exit, and a called function
\* that calls sys.exit, end the process with status 11 whatever status they
\* passed, after a critical log entry; the load that met sys.exit caches
\* nothing; the process ends for no other reason.
C7_ExitStatusFixed ==
    /\ (last.op \in SMOps /\ ~last.hit /\ fs[LastLoc] \in ExitScripts) =>
          /\ proc = [st |-> "exited", status |-> 11]
          /\ last.key \notin DOMAIN modules
          /\ ~last.changed
    /\ (last.op = "call" /\ last.func = "quit" /\ last.out.invoked) =>
          proc = [st |-> "exited", status |-> 11]
    /\ proc.st = "exited" =>
          /\ proc.status = 11
          /\ last.out.exc = "SystemExit"
          /\ LastLog.lvl = "critical"
          /\ \/ last.out.ran = "aborted" /\ fs[LastLoc] \in ExitScripts
             \/ last.op = "call" /\ last.func = "quit" /\ last.out.invoked

C7_Witness ==
    /\ proc = [st |-> "exited", status |-> 11]
    /\ last.op = "call" /\ last.func = "quit" /\ last.args = <<3>>

\* C8: a call for a name the cached unit does not have returns None, raises
\* nothing, invokes nothing, ends with the error entry 'Module not loaded for
\* call' naming path and function, and leaves the unit in the cache.
C8_MissingFunction ==
    (last.op = "call" /\ last.func = "nofunc" /\ last.key \in DOMAIN modules) =>
        /\ last.out.ret = PyNone
        /\ last.out.exc = "none"
        /\ ~last.out.invoked
        /\ LastLog = LogEntry("error", MsgNotLoadedForCall, last.key, "nofunc")
        /\ last.hit => ~last.changed

C8_Witness ==
    /\ last.op = "call" /\ last.func = "nofunc"
    /\ last.key \in DOMAIN modules /\ ~last.hit
    /\ last.out.ret = PyNone

\* C9: when __getitem__ has no unit for the path (no such script, or a load
\* error), call invokes nothing, returns None and ends with the error entry
\* naming path and function, whatever the function name and the arguments.
C9_NoUnitNoCall ==
    (last.op = "call" /\ ~GotUnit(last.out)) =>
        /\ last.out.ret = PyNone
        /\ ~last.out.invoked
        /\ LastLog = LogEntry("error", MsgNotLoadedForCall, last.key, last.func)

\* C10: the membership probe answers True exactly when the path has a usable
\* unit: False when the script is not found, False when its load faults.
C10_ProbeIffUsable ==
    (last.op = "contains" /\ last.out.exc = "none") =>
        /\ last.out.ret \in {PyTrue, PyFalse}
        /\ last.out.ret = PyTrue <=>
              (/\ ~HasLog(last.out.logs, MsgNoSuchScript)
               /\ ~HasLog(last.out.logs, MsgLoadError))

-----------------------------------------------------------------------------
(* Path resolution *)

WorldKey == <<"a.py">>
SharedKey == <<COMMON, SEP, "a.py">>

\* where the claim places the script of a logical path
ClaimedLocation(wdir, key) ==
    IF Len(key) >= 2 /\ key[1] = COMMON /\ key[2] = SEP
    THEN <<"common", SEP>> \o SubSeq(key, 3, Len(key))
    ELSE wdir \o <<SEP>> \o key

LocationsAsClaimed ==
    /\ \A k \in DOMAIN modules :
          /\ modules[k].key = k
          /\ modules[k].file = ClaimedLocation(worldDir, k)
    /\ (last.op \in SMOps /\ last.kind = "notfound") =>
          last.out.logs[1].path = ClaimedLocation(worldDir, last.key)

\* C11 (as claimed): a $COMMON$/ path is read from common/<rest>, any other
\* path from <world.dir>/<path>, each unit is cached under its own logical
\* path, and the shared and the world script of one suffix are read from two
\* different locations.
C11_NamespacesDistinct ==
    /\ LocationsAsClaimed
    /\ {WorldKey, SharedKey} \subseteq DOMAIN modules =>
          modules[WorldKey].file # modules[SharedKey].file

\* C11 (amended): the same, the two locations being different whenever the
\* world's directory is not the shared root common itself.
C11_NamespacesDistinctUnlessWorldIsCommon ==
    /\ LocationsAsClaimed
    /\ ({WorldKey, SharedKey} \subseteq DOMAIN modules /\ worldDir # <<"common">>) =>
          modules[WorldKey].file # modules[SharedKey].file
    /\ ({WorldKey, SharedKey} \subseteq DOMAIN modules /\ worldDir = <<"common">>) =>
          modules[WorldKey].file = modules[SharedKey].file

C11_Witness ==
    /\ {WorldKey, SharedKey} \subseteq DOMAIN modules
    /\ worldDir = <<"w">>
    /\ modules[WorldKey].file = <<"w", SEP, "a.py">>
    /\ modules[SharedKey].file = <<"common", SEP, "a.py">>
    /\ last.op = "resolve"

-----------------------------------------------------------------------------
(* Threads *)

\* C12: whatever the threads do, the top-level code of a path runs to its end
\* at most once, and two threads that hold a module for the same path hold
\* the same module.
C12_ConcurrentLoadOnce ==
    /\ \A k \in Keys : execDone[k] <= 1
    /\ \A t, u \in Threads :
          (/\ threads[t].pc = "done" /\ threads[u].pc = "done"
           /\ threads[t].key = threads[u].key
           /\ IsModule(threads[t].ret) /\ IsModule(threads[u].ret)) =>
              threads[t].ret = threads[u].ret

-----------------------------------------------------------------------------
(* Reports of call *)

\* functions of a script whose body raises: boom a ValueError, lookup the
\* AttributeError of a lookup that fails inside it
RaisingFuncs == {"boom", "lookup"}

\* C14: when the body of the called function raises a fault other than
\* SystemExit, whatever its class, call returns None and ends with the error
\* entry 'Error from function' naming path and function; it logs no 'Module
\* not loaded for call'.
C14_FunctionFaultIsCallError ==
    (last.op = "call" /\ last.func \in RaisingFuncs /\ last.out.invoked) =>
        /\ last.out.ret = PyNone
        /\ last.out.exc = "none"
        /\ LastLog = LogEntry("error", MsgCallError, last.key, last.func)
        /\ ~HasLog(last.out.logs, MsgNotLoadedForCall)

\* the call found a unit with the data attribute and tried to call it
CalledData ==
    /\ last.op = "call" /\ last.func = "data"
    /\ GotUnit(last.out)
    /\ last.key \in DOMAIN modules

\* C15 (as claimed): a call of an attribute of the unit that is not callable
\* is reported as a missing module or function is: None and the error entry
\* 'Module not loaded for call'.
C15_NotCallableIsNotLoaded ==
    CalledData =>
        /\ last.out.ret = PyNone
        /\ LastLog = LogEntry("error", MsgNotLoadedForCall, last.key, "data")
        /\ ~HasLog(last.out.logs, MsgCallError)

\* C15 (amended): a call of an attribute of the unit that is not callable
\* is reported as a fault of a function is: None, nothing raised, and the
\* error entry 'Error from function' naming path and attribute; the unit
\* stays cached.
C15_NotCallableIsCallError ==
    CalledData =>
        /\ last.out.ret = PyNone
        /\ last.out.exc = "none"
        /\ ~last.out.invoked
        /\ LastLog = LogEntry("error", MsgCallError, last.key, "data")
        /\ ~HasLog(last.out.logs, MsgNotLoadedForCall)
        /\ last.hit => ~last.changed

C15_Witness ==
    /\ CalledData /\ last.hit
    /\ LastLog.msg = MsgCallError
    /\ last.out.ret = PyNone

-----------------------------------------------------------------------------
(* The context handle *)

\* C16: every cached unit carries the context handle BXE, made for the
\* unit's own logical path.
C16_CachedUnitsCarryHandle ==
    \A k \in DOMAIN modules :
        /\ modules[k].BXE # NoBXE
        /\ modules[k].BXE = k

-----------------------------------------------------------------------------
(* sys.exit at load time and at call time *)

CriticalEntries(logs) == { i \in 1..Len(logs) : logs[i].lvl = "critical" }

\* C17: a call that ends the process, by the top-level code of a script it
\* loads or by the function it calls, logs exactly one critical entry and
\* ends the process with status 11.
C17_ExitHandledAlike ==
    (last.op = "call" /\ proc.st = "exited") =>
        /\ proc.status = 11
        /\ Cardinality(CriticalEntries(last.out.logs)) = 1

-----------------------------------------------------------------------------
(* The marker without a script name *)

MarkerOnly == <<COMMON, SEP>>

\* C18: for the path $COMMON$/ nothing is ever cached; _module returns False
\* and raises nothing; call returns None and raises nothing, for the functions
\* of a script; whether or not the directory common exists.
C18_MarkerOnlyIsNotFound ==
    /\ MarkerOnly \notin DOMAIN modules
    /\ (last.op = "resolve" /\ last.key = MarkerOnly) =>
          /\ last.out.exc = "none"
          /\ last.out.ret = PyFalse
    /\ (last.op = "call" /\ last.key = MarkerOnly /\ last.func # "__repr__") =>
          /\ last.out.exc = "none"
          /\ last.out.ret = PyNone

-----------------------------------------------------------------------------
(* Properties of the OverlayManager *)

\* the last operation was an insert_overlay that could not succeed: the
\* imagefile is neither a string nor a Surface, or names no loadable image
InsertFailed ==
    /\ ovLast.op = "insert"
    /\ \/ ovLast.arg.t \notin {"str", "surface"}
       \/ ovLast.arg.t = "str" /\ ovLast.arg.s \notin ImageFiles

InsertSucceeded == ovLast.op = "insert" /\ ~InsertFailed

\* C13: an insert_overlay that fails returns None, leaves the overlays as
\* they were and does not render; one that succeeds returns an integer, the
\* ID of an overlay now in the collection.
C13_InsertReturnsIdOrNone ==
    /\ InsertFailed =>
          /\ ovLast.ret = PyNone
          /\ overlays = ovLast.before
          /\ ~ovLast.rendered
    /\ InsertSucceeded =>
          /\ ovLast.ret.t = "int"
          /\ ovLast.ret.n \in DOMAIN overlays
          /\ ovLast.rendered

\* C19: after _cleanup every overlay in the collection is persistent, no
\* overlay is new, and every overlay that was persistent before is there
\* under its ID with the filename, image, position and flag it had.
C19_CleanupKeepsPersistent ==
    ovLast.op = "cleanup" =>
        /\ \A k \in DOMAIN overlays : overlays[k].persistent
        /\ DOMAIN overlays \subseteq DOMAIN ovLast.before
        /\ \A k \in DOMAIN ovLast.before :
              ovLast.before[k].persistent =>
                  /\ k \in DOMAIN overlays
                  /\ overlays[k] = ovLast.before[k]

C19_Witness ==
    /\ ovLast.op = "cleanup"
    /\ \E k \in DOMAIN ovLast.before : ~ovLast.before[k].persistent
    /\ \E k \in DOMAIN overlays :
          /\ overlays[k].persistent
          /\ overlays[k].image # k
          /\ overlays[k].position = <<5, 5>>

\* C20: an insert_overlay that succeeds returns an ID that no overlay had
\* before, leaves every overlay that was there as it was, and makes the
\* collection one overlay larger.
C20_InsertAddsOne ==
    InsertSucceeded =>
        /\ ovLast.ret.n \notin DOMAIN ovLast.before
        /\ \A k \in DOMAIN ovLast.before :
              k \in DOMAIN overlays /\ overlays[k] = ovLast.before[k]
        /\ Cardinality(DOMAIN overlays) = Cardinality(DOMAIN ovLast.before) + 1

=============================================================================
